---- MODULE Spec2Model ----
(***************************************************************************)
(* A model of weather.py: the CSV loader, the scalar converters, the       *)
(* aggregators and the two summary generators.                             *)
(*                                                                         *)
(* Python values are records [t, n, d, z, s]:                              *)
(*   t = "int"    the integer n                                            *)
(*   t = "float"  the float n/d (d > 0); z marks the negative zero -0.0    *)
(*   t = "str"    the text s                                               *)
(* A float is modelled by the exact rational its double approximates; the  *)
(* only place where the difference can show is a round() whose exact       *)
(* argument is a tie, and there the outcome is left open (see Round1).     *)
(*                                                                         *)
(* The outcome of a call is a record [exc, t, n, d, z, i, s]: exc is the   *)
(* exception that left the function ("none" when it returned), and the     *)
(* other fields hold the returned value: t = "pair" is the tuple           *)
(* (n/d, i), t = "empty" the empty tuple ().                               *)
(***************************************************************************)
EXTENDS Integers, Sequences, FiniteSets, TLC

VARIABLES
    file,       \* the file system's view of csv_file: [path, open, lines, failAt]
    data,       \* the list load_data_from_csv returned
    console,    \* what has been print()ed, one entry per call
    op,         \* the function called last
    arg,        \* its argument
    ret,        \* its outcome
    calls       \* the functions of the module it called, in order

vars == <<file, data, console, op, arg, ret, calls>>

-----------------------------------------------------------------------------
(* Python values *)

PyInt(k) == [t |-> "int", n |-> k, d |-> 1, z |-> FALSE, s |-> ""]
PyFloat(p, q) == [t |-> "float", n |-> p, d |-> q, z |-> FALSE, s |-> ""]
PyStr(text) == [t |-> "str", n |-> 0, d |-> 1, z |-> FALSE, s |-> text]

Returned(v) ==
    [exc |-> "none", t |-> v.t, n |-> v.n, d |-> v.d, z |-> v.z, i |-> 0, s |-> v.s]
Raised(e) ==
    [exc |-> e, t |-> "none", n |-> 0, d |-> 1, z |-> FALSE, i |-> 0, s |-> ""]
ReturnedPair(v, idx) ==
    [exc |-> "none", t |-> "pair", n |-> v.n, d |-> v.d, z |-> v.z, i |-> idx, s |-> ""]
ReturnedEmptyTuple ==
    [exc |-> "none", t |-> "empty", n |-> 0, d |-> 1, z |-> FALSE, i |-> 0, s |-> ""]
ReturnedText(text) == Returned(PyStr(text))

\* The value a returning outcome carries.
ValueOf(r) == [t |-> r.t, n |-> r.n, d |-> r.d, z |-> r.z, s |-> r.s]

\* x < y, x = y on the numbers two int or float values stand for.
NumLess(x, y) == x.n * y.d < y.n * x.d
NumEq(x, y) == x.n * y.d = y.n * x.d

-----------------------------------------------------------------------------------------------------------------------------------------------------
(* Text: characters are the one-character strings; a text is parsed        *)
(* character by character, as int(), float() and fromisoformat() do.       *)
(* An operator hands what it has computed to the next one as a parameter,  *)
(* so that each step of a conversion is stated once.                       *)

DigitChars == {"0", "1", "2", "3", "4", "5", "6", "7", "8", "9"}
DigitVal(c) == CHOOSE v \in 0..9 : ToString(v) = c

AllDigits(text) == \A k \in 1..Len(text) : SubSeq(text, k, k) \in DigitChars

RECURSIVE DigitsValue(_, _, _)
\* The number a run of decimal digits denotes, from digit k on, acc being
\* the value of the digits before it.
DigitsValue(text, k, acc) ==
    IF k > Len(text) THEN acc
    ELSE DigitsValue(text, k + 1, 10 * acc + DigitVal(SubSeq(text, k, k)))

RECURSIVE Pow10(_)
Pow10(k) == IF k = 0 THEN 1 ELSE 10 * Pow10(k - 1)

\* str.strip() of blanks: from the first to the last character that is
\* not a blank.
Strip(text) ==
    LET inked == {k \in 1..Len(text) : SubSeq(text, k, k) # " "} IN
    IF inked = {} THEN ""
    ELSE SubSeq(text,
                CHOOSE k \in inked : \A j \in inked : k <= j,
                CHOOSE k \in inked : \A j \in inked : k >= j)

HasSign(text) == text # "" /\ SubSeq(text, 1, 1) \in {"+", "-"}
Unsigned(text) == IF HasSign(text) THEN SubSeq(text, 2, Len(text)) ELSE text
SignOf(text) == IF text # "" /\ SubSeq(text, 1, 1) = "-" THEN -1 ELSE 1

\* The position of the first "." of text, 0 when there is none.
DotAt(text) ==
    LET dots == {k \in 1..Len(text) : SubSeq(text, k, k) = "."} IN
    IF dots = {} THEN 0 ELSE CHOOSE k \in dots : \A j \in dots : k <= j

IntOfStripped(stripped) ==
    IF Unsigned(stripped) # "" /\ AllDigits(Unsigned(stripped))
    THEN Returned(PyInt(SignOf(stripped) * DigitsValue(Unsigned(stripped), 1, 0)))
    ELSE Raised("ValueError")

\* int(text): surrounding blanks stripped, an optional sign, then one or
\* more decimal digits; anything else is a ValueError.  (Texts are over
\* digits, signs, ".", blanks and letters; "_" separators do not occur.)
IntOfText(text) == IntOfStripped(Strip(text))

\* The float sign * digits / 10^places; a negative zero keeps its sign.
FloatOfDigits(sign, magnitude, places) ==
    Returned([PyFloat(sign * magnitude, Pow10(places))
                 EXCEPT !.z = (sign = -1 /\ magnitude = 0)])

FloatOfMantissa(sign, body, dot) ==
    LET whole == IF dot = 0 THEN body ELSE SubSeq(body, 1, dot - 1)
        frac == IF dot = 0 THEN "" ELSE SubSeq(body, dot + 1, Len(body))
    IN  IF AllDigits(whole \o frac) /\ Len(whole \o frac) > 0
        THEN FloatOfDigits(sign, DigitsValue(whole \o frac, 1, 0), Len(frac))
        ELSE Raised("ValueError")

FloatOfStripped(stripped) ==
    FloatOfMantissa(SignOf(stripped), Unsigned(stripped), DotAt(Unsigned(stripped)))

\* float(text): surrounding blanks stripped, an optional sign, then digits
\* with at most one "." and at least one digit; anything else is a
\* ValueError.  (Exponents, "inf" and "nan" do not occur in the texts.)
FloatOfText(text) == FloatOfStripped(Strip(text))

\* float(v) for a Python value v.
ToFloat(v) ==
    CASE v.t = "int" -> Returned(PyFloat(v.n, 1))
      [] v.t = "float" -> Returned(v)
      [] OTHER -> FloatOfText(v.s)

\* The outcomes of float(x) for the elements x of a list, in order.
Floats(values) == [k \in 1..Len(values) |-> ToFloat(values[k])]

\* The first element whose conversion raised, 0 when every one converted:
\* a comprehension [float(x) for x in values] stops there.
FirstRaise(outcomes) ==
    LET bad == {k \in 1..Len(outcomes) : outcomes[k].exc # "none"} IN
    IF bad = {} THEN 0 ELSE CHOOSE k \in bad : \A j \in bad : k <= j

ValuesOf(outcomes) == [k \in 1..Len(outcomes) |-> ValueOf(outcomes[k])]

-----
(* Scalar converters *)

DEGREE_SYMBOL == "°C"

\* repr() of a float that is a whole number of tenths, which is what
\* round(x, 1) returns: sign, integer part, ".", one digit.
FloatRepr(v) ==
    LET tenths == (10 * v.n) \div v.d
        mag == IF tenths < 0 THEN -tenths ELSE tenths
    IN  (IF tenths < 0 \/ v.z THEN "-" ELSE "")
            \o ToString(mag \div 10) \o "." \o ToString(mag % 10)

\* f"{v}" for a Python value.
Format(v) ==
    CASE v.t = "int" -> ToString(v.n)
      [] v.t = "float" -> FloatRepr(v)
      [] OTHER -> v.s

format_temperature(temp) == ReturnedText(Format(temp) \o DEGREE_SYMBOL)

\* Tenths of a degree Celsius, exactly: ((p/q) - 32) * 5/9 * 10 = TenthsNum / TenthsDen.
TenthsNum(x) == 50 * (x.n - 32 * x.d)
TenthsDen(x) == 9 * x.d

\* The exact value lies halfway between two tenths.
ExactTie(x) == 2 * (TenthsNum(x) % TenthsDen(x)) = TenthsDen(x)

\* round(celsius, 1), in tenths.  round() is handed the double nearest to
\* the exact value and returns the tenth nearest to that double.  Off a
\* tie that is the tenth nearest to the exact value.  On a tie the double
\* may lie on either side (or, when it is exact, round() goes to the even
\* tenth), so both neighbours are outcomes: up says which one.
Round1(x, up) ==
    LET low == TenthsNum(x) \div TenthsDen(x)
        rem == TenthsNum(x) % TenthsDen(x)
    IN  IF 2 * rem < TenthsDen(x) THEN low
        ELSE IF 2 * rem > TenthsDen(x) THEN low + 1
        ELSE IF up THEN low + 1 ELSE low

\* round(celsius, 1) of the float x converted, as a float; a result of
\* zero keeps the sign of the value rounded.
CelsiusRounded(x, tenths) ==
    Returned([PyFloat(tenths, 10) EXCEPT !.z = (tenths = 0 /\ (TenthsNum(x) < 0 \/ x.z))])

CelsiusOf(x, up) ==
    IF x.exc # "none" THEN Raised(x.exc) ELSE CelsiusRounded(x, Round1(x, up))

CelsiusTruncated(x, up) ==
    IF x.exc # "none" THEN Raised(x.exc)
    ELSE CelsiusRounded(x, TenthsNum(x) \div TenthsDen(x))

convert_f_to_c_trunc(temp_in_fahrenheit, up) ==
    CelsiusTruncated(ToFloat(temp_in_fahrenheit), up)

CelsiusLenient(x, up) ==
    IF x.exc # "none" THEN Returned(PyFloat(0, 10)) ELSE CelsiusRounded(x, Round1(x, up))

convert_f_to_c_lenient(temp_in_fahrenheit, up) ==
    CelsiusLenient(ToFloat(temp_in_fahrenheit), up)

convert_f_to_c(temp_in_fahrenheit, up) == CelsiusOf(ToFloat(temp_in_fahrenheit), up)

TieOf(x) == x.exc = "none" /\ ExactTie(x)

\* Whether convert_f_to_c(temp) rounds a tie.
IsTie(temp) == TieOf(ToFloat(temp))

-----------------------------------------------------------------------------
(* Dates *)

WeekdayNames ==
    <<"Monday", "Tuesday", "Wednesday", "Thursday", "Friday", "Saturday", "Sunday">>
MonthNames ==
    <<"January", "February", "March", "April", "May", "June", "July",
      "August", "September", "October", "November", "December">>

IsLeap(y) == y % 4 = 0 /\ (y % 100 # 0 \/ y % 400 = 0)
DaysInMonth(y, m) ==
    IF m = 2 THEN (IF IsLeap(y) THEN 29 ELSE 28)
    ELSE IF m \in {4, 6, 9, 11} THEN 30 ELSE 31

RECURSIVE DaysBeforeMonth(_, _)
DaysBeforeMonth(y, m) ==
    IF m = 1 THEN 0 ELSE DaysBeforeMonth(y, m - 1) + DaysInMonth(y, m - 1)

DaysBeforeYear(y) ==
    (y - 1) * 365 + (y - 1) \div 4 - (y - 1) \div 100 + (y - 1) \div 400

\* date.toordinal(): 1 for 0001-01-01, a Monday.
Ordinal(y, m, dd) == DaysBeforeYear(y) + DaysBeforeMonth(y, m) + dd

\* date.weekday(): 0 for Monday.
Weekday(y, m, dd) == (Ordinal(y, m, dd) + 6) % 7

\* The text has the calendar form YYYY-MM-DD.
IsoShape(text) ==
    /\ Len(text) = 10
    /\ SubSeq(text, 5, 5) = "-"
    /\ SubSeq(text, 8, 8) = "-"
    /\ AllDigits(SubSeq(text, 1, 4) \o SubSeq(text, 6, 7) \o SubSeq(text, 9, 10))

IsoYear(text) == DigitsValue(SubSeq(text, 1, 4), 1, 0)
IsoMonth(text) == DigitsValue(SubSeq(text, 6, 7), 1, 0)
IsoDay(text) == DigitsValue(SubSeq(text, 9, 10), 1, 0)

TwoDigits(k) == (IF k < 10 THEN "0" ELSE "") \o ToString(k)

\* strftime("%A %d %B %Y")
Strftime(y, m, dd) ==
    WeekdayNames[Weekday(y, m, dd) + 1] \o " " \o TwoDigits(dd) \o " "
        \o MonthNames[m] \o " " \o ToString(y)

\* The date of year y, month m and day dd, if there is one, formatted.
DateOf(y, m, dd) ==
    IF y >= 1 /\ m \in 1..12 /\ dd >= 1 /\ dd <= DaysInMonth(y, m)
    THEN ReturnedText(Strftime(y, m, dd))
    ELSE Raised("ValueError")

\* datetime.fromisoformat, then strftime.  (Of the forms fromisoformat
\* reads, only the calendar date occurs in the texts, with a year of four
\* digits.)
convert_date(iso_string) ==
    IF iso_string.t # "str" THEN Raised("TypeError")
    ELSE IF ~IsoShape(iso_string.s) THEN Raised("ValueError")
    ELSE DateOf(IsoYear(iso_string.s), IsoMonth(iso_string.s), IsoDay(iso_string.s))

-----------------------------------------------------------------------------------------------------------------------------------------------------
(* Aggregators *)

RECURSIVE SumFrom(_, _, _)
\* sum(): the floats added left to right, total being the sum so far.
SumFrom(floats, k, total) ==
    IF k > Len(floats) THEN total
    ELSE SumFrom(floats, k + 1,
                 PyFloat(total.n * floats[k].d + floats[k].n * total.d,
                         total.d * floats[k].d))

\* total / len(weather_data)
Quotient(total, count) ==
    IF count = 0 THEN Raised("ZeroDivisionError")
    ELSE Returned(PyFloat(total.n, total.d * count))

\* The body of the try statement, given the outcomes of float() on the
\* elements: the generator raises at the first element that does not
\* convert, before anything is divided.
MeanOf(outcomes) ==
    IF FirstRaise(outcomes) # 0 THEN Raised(outcomes[FirstRaise(outcomes)].exc)
    ELSE Quotient(SumFrom(ValuesOf(outcomes), 1, PyFloat(0, 1)), Len(outcomes))

\* The except clauses.
MeanHandled(attempt) ==
    CASE attempt.exc = "ZeroDivisionError" -> Returned(PyFloat(0, 1))
      [] attempt.exc = "ValueError" -> ReturnedText("Cannot divide by zero")
      [] OTHER -> attempt

calculate_mean_skip(weather_data) ==
    MeanHandled(MeanOf(Floats(SelectSeq(weather_data, LAMBDA v : ToFloat(v).exc = "none"))))

calculate_mean(weather_data) == MeanHandled(MeanOf(Floats(weather_data)))

RECURSIVE MinFrom(_, _, _)
\* min(): the first of the smallest elements, best being the smallest so far.
MinFrom(floats, k, best) ==
    IF k > Len(floats) THEN best
    ELSE MinFrom(floats, k + 1, IF NumLess(floats[k], best) THEN floats[k] ELSE best)

RECURSIVE MaxFrom(_, _, _)
\* max(): the first of the largest elements.
MaxFrom(floats, k, best) ==
    IF k > Len(floats) THEN best
    ELSE MaxFrom(floats, k + 1, IF NumLess(best, floats[k]) THEN floats[k] ELSE best)

\* floats[::-1]
Reversed(floats) == [k \in 1..Len(floats) |-> floats[Len(floats) + 1 - k]]

\* list.index(value): the 0-based position of the first element equal to it.
IndexOf(floats, value) ==
    LET hits == {k \in 1..Len(floats) : NumEq(floats[k], value)} IN
    (CHOOSE k \in hits : \A j \in hits : k <= j) - 1

\* (value, last_index), last_index being computed on the reversed list.
LastOccurrence(float_data, value) ==
    ReturnedPair(value, Len(float_data) - 1 - IndexOf(Reversed(float_data), value))

FirstOccurrence(float_data, value) == ReturnedPair(value, IndexOf(float_data, value))

\* find_min past its test for the empty list, given the outcomes of
\* float() on the elements.
MinOf(outcomes) ==
    IF FirstRaise(outcomes) # 0 THEN Raised(outcomes[FirstRaise(outcomes)].exc)
    ELSE LastOccurrence(ValuesOf(outcomes), MinFrom(ValuesOf(outcomes), 2, ValuesOf(outcomes)[1]))

MinOfFirst(outcomes) ==
    IF FirstRaise(outcomes) # 0 THEN Raised(outcomes[FirstRaise(outcomes)].exc)
    ELSE FirstOccurrence(ValuesOf(outcomes), MinFrom(ValuesOf(outcomes), 2, ValuesOf(outcomes)[1]))

MaxOf(outcomes) ==
    IF FirstRaise(outcomes) # 0 THEN Raised(outcomes[FirstRaise(outcomes)].exc)
    ELSE LastOccurrence(ValuesOf(outcomes), MaxFrom(ValuesOf(outcomes), 2, ValuesOf(outcomes)[1]))

find_min_first(weather_data) ==
    IF Len(weather_data) = 0 THEN ReturnedEmptyTuple ELSE MinOfFirst(Floats(weather_data))

find_min(weather_data) ==
    IF Len(weather_data) = 0 THEN ReturnedEmptyTuple ELSE MinOf(Floats(weather_data))

find_max_no_empty_test(weather_data) ==
    IF Len(weather_data) = 0 THEN Raised("ValueError") ELSE MaxOf(Floats(weather_data))

find_max(weather_data) ==
    IF Len(weather_data) = 0 THEN ReturnedEmptyTuple ELSE MaxOf(Floats(weather_data))

-----------------------------------------------------------------------------
(* CSV loader *)

RECURSIVE SplitFields(_, _, _)
\* The fields of a line from position k on, field being the one in progress.
SplitFields(line, k, field) ==
    IF k > Len(line) THEN <<field>>
    ELSE IF SubSeq(line, k, k) = "," THEN <<field>> \o SplitFields(line, k + 1, "")
    ELSE SplitFields(line, k + 1, field \o SubSeq(line, k, k))

\* The row csv.reader yields for a physical line: its comma-separated
\* fields, and the empty list for a blank line.  (No quote characters
\* occur in the lines, so a row is one line.)
CsvRow(line) == IF line = "" THEN <<>> ELSE SplitFields(line, 1, "")

\* `row and ("for cell in row")`: the second operand is a non-empty string
\* literal, which is true, so the test is whether the row has a field.
RowKept(row) == Len(row) > 0 /\ "for cell in row" # ""

FieldOfSwapped(text, attempt) ==
    IF attempt.exc = "none" THEN PyStr(text) ELSE PyInt(0)

\* try: int(row[i]), except ValueError: row[i]
FieldOf(text, attempt) ==
    IF attempt.exc = "none" THEN ValueOf(attempt) ELSE PyStr(text)

ProcessField(text) == FieldOf(text, IntOfText(text))

ProcessRow(row) ==
    [j \in 1..Len(row) |-> IF j = 1 THEN PyStr(row[1]) ELSE ProcessField(row[j])]

RECURSIVE ReadRowsHeaderFirst(_, _, _, _, _)
ReadRowsHeaderFirst(rows, failAt, k, header_skipped, built) ==
    IF k = failAt THEN [exc |-> "OSError", data |-> built]
    ELSE IF k > Len(rows) THEN [exc |-> "none", data |-> built]
    ELSE IF ~header_skipped THEN ReadRowsHeaderFirst(rows, failAt, k + 1, TRUE, built)
    ELSE IF ~RowKept(rows[k])
        THEN ReadRowsHeaderFirst(rows, failAt, k + 1, header_skipped, built)
    ELSE ReadRowsHeaderFirst(rows, failAt, k + 1, header_skipped,
                             Append(built, ProcessRow(rows[k])))

RECURSIVE ReadRows(_, _, _, _, _)
\* The for loop over the reader from physical line k on, rows being what
\* the reader yields line by line and reading line failAt raising: the
\* exception that ends the loop ("none" at the end of the file) and the
\* list built.
ReadRows(rows, failAt, k, header_skipped, built) ==
    IF k = failAt THEN [exc |-> "OSError", data |-> built]
    ELSE IF k > Len(rows) THEN [exc |-> "none", data |-> built]
    ELSE IF ~RowKept(rows[k]) THEN ReadRows(rows, failAt, k + 1, header_skipped, built)
    ELSE IF ~header_skipped THEN ReadRows(rows, failAt, k + 1, TRUE, built)
    ELSE ReadRows(rows, failAt, k + 1, header_skipped, Append(built, ProcessRow(rows[k])))

\* The body of the try statement: open() and the loop.
TryRead(f) ==
    IF f.open # "ok" THEN [exc |-> f.open, data |-> <<>>]
    ELSE ReadRows([k \in 1..Len(f.lines) |-> CsvRow(f.lines[k])], f.failAt, 1, FALSE, <<>>)

HandleFileNotFoundOnly(f, attempt) ==
    CASE attempt.exc = "FileNotFoundError" ->
            [exc |-> "none", data |-> attempt.data,
             printed |-> <<"Error: The file '" \o f.path \o "' does not exist.">>]
      [] OTHER ->
            [exc |-> attempt.exc, data |-> attempt.data, printed |-> <<>>]

\* The except clauses: what is printed, and the exception that goes on to
\* the caller.
Handle(f, attempt) ==
    CASE attempt.exc = "none" ->
            [exc |-> "none", data |-> attempt.data, printed |-> <<>>]
      [] attempt.exc = "FileNotFoundError" ->
            [exc |-> "none", data |-> attempt.data,
             printed |-> <<"Error: The file '" \o f.path \o "' does not exist.">>]
      [] OTHER ->
            [exc |-> "none", data |-> attempt.data,
             printed |-> <<"An error occurred: " \o attempt.exc>>]

load_data_from_csv(f) == Handle(f, TryRead(f))

-----------------------------------------------------------------------------
(* Summary generators.  An outcome here also lists, in calls, the          *)
(* functions of the module that were called before the function ended.     *)

Done(outcome, called) == [out |-> outcome, calls |-> called]

\* Whether a tie at the call site rounds up; up maps the sites whose
\* argument is a tie to the side the double falls on.
UpAt(up, site) == site \in DOMAIN up /\ up[site]

\* row[c] for the rows of the dataset, then float() of it: the outcomes of
\* the comprehension [float(row[c]) for row in weather_data].
Column(weather_data, c) ==
    [k \in 1..Len(weather_data) |->
        IF Len(weather_data[k]) <= c THEN Raised("IndexError")
        ELSE ToFloat(weather_data[k][c + 1])]

\* The float of a (value, index) tuple.
PairValue(r) == [t |-> "float", n |-> r.n, d |-> r.d, z |-> r.z, s |-> ""]

\* `value, index = result`: unpacking the empty tuple raises ValueError.
Unpacks(r) == r.t = "pair"

DateAtFirstRow(weather_data, extreme) ==
    IF ~Unpacks(extreme) THEN Raised("ValueError")
    ELSE convert_date(weather_data[1][1])

\* convert_date(weather_data[index][0]) for the index of an extreme.
DateAt(weather_data, extreme) ==
    IF ~Unpacks(extreme) THEN Raised("ValueError")
    ELSE convert_date(weather_data[extreme.i + 1][1])

\* What convert_f_to_c is given at the four call sites of generate_summary:
\* 1 the lowest, 2 the highest temperature, 3 the mean low, 4 the mean high.
SummaryInputs(temps, extremes) ==
    <<PairValue(extremes[1]), PairValue(extremes[2])>>
        \o [c \in 1..2 |-> ValueOf(calculate_mean(temps[c]))]

ExtremeCalls(finder) == <<finder, "convert_f_to_c", "format_temperature", "convert_date">>
MeanCalls ==
    <<"calculate_mean", "calculate_mean", "convert_f_to_c", "format_temperature",
      "convert_f_to_c", "format_temperature">>

SummaryText(num_days, formatted, dates) ==
    ToString(num_days) \o " Day Overview\n"
    \o "  The lowest temperature will be " \o formatted[1]
    \o ", and will occur on " \o dates[1].s \o ".\n"
    \o "  The highest temperature will be " \o formatted[2]
    \o ", and will occur on " \o dates[2].s \o ".\n"
    \o "  The average low this week is " \o formatted[3] \o ".\n"
    \o "  The average high this week is " \o formatted[4] \o ".\n"

\* The statements after the two extremes were looked for, in their order:
\* each unpacking, date and conversion may end the function.
SummaryOfParts(num_days, extremes, dates, celsius) ==
    IF ~Unpacks(extremes[1]) THEN Done(Raised("ValueError"), <<"find_min">>)
    ELSE IF dates[1].exc # "none" THEN Done(Raised(dates[1].exc), ExtremeCalls("find_min"))
    ELSE IF ~Unpacks(extremes[2])
        THEN Done(Raised("ValueError"), ExtremeCalls("find_min") \o <<"find_max">>)
    ELSE IF dates[2].exc # "none"
        THEN Done(Raised(dates[2].exc), ExtremeCalls("find_min") \o ExtremeCalls("find_max"))
    ELSE IF celsius[3].exc # "none"
        THEN Done(Raised(celsius[3].exc),
                  ExtremeCalls("find_min") \o ExtremeCalls("find_max")
                      \o SubSeq(MeanCalls, 1, 3))
    ELSE IF celsius[4].exc # "none"
        THEN Done(Raised(celsius[4].exc),
                  ExtremeCalls("find_min") \o ExtremeCalls("find_max")
                      \o SubSeq(MeanCalls, 1, 5))
    ELSE Done(ReturnedText(SummaryText(num_days,
                    [k \in 1..4 |-> format_temperature(ValueOf(celsius[k])).s], dates)),
              ExtremeCalls("find_min") \o ExtremeCalls("find_max") \o MeanCalls)

SummaryOfExtremes(weather_data, up, temps, extremes) ==
    SummaryOfParts(Len(weather_data), extremes,
                   [e \in 1..2 |-> DateAt(weather_data, extremes[e])],
                   [k \in 1..4 |-> convert_f_to_c(SummaryInputs(temps, extremes)[k],
                                                  UpAt(up, k))])

\* generate_summary past its test for the empty dataset, columns being the
\* outcomes of the two comprehensions.
SummaryOfColumns(weather_data, up, columns) ==
    IF FirstRaise(columns[1]) # 0
    THEN Done(Raised(columns[1][FirstRaise(columns[1])].exc), <<>>)
    ELSE IF FirstRaise(columns[2]) # 0
    THEN Done(Raised(columns[2][FirstRaise(columns[2])].exc), <<>>)
    ELSE SummaryOfExtremes(weather_data, up,
                           [c \in 1..2 |-> ValuesOf(columns[c])],
                           <<find_min(ValuesOf(columns[1])), find_max(ValuesOf(columns[2]))>>)

generate_summary(weather_data, up) ==
    IF Len(weather_data) = 0 THEN Done(ReturnedText(""), <<>>)
    ELSE SummaryOfColumns(weather_data, up, [c \in 1..2 |-> Column(weather_data, c)])

TieSitesOfColumns(columns) ==
    IF FirstRaise(columns[1]) # 0 \/ FirstRaise(columns[2]) # 0 THEN {}
    ELSE {k \in 1..4 :
            IsTie(SummaryInputs([c \in 1..2 |-> ValuesOf(columns[c])],
                                <<find_min(ValuesOf(columns[1])),
                                  find_max(ValuesOf(columns[2]))>>)[k])}

\* The call sites of generate_summary whose convert_f_to_c rounds a tie.
SummaryTieSites(weather_data) ==
    IF Len(weather_data) = 0 THEN {}
    ELSE TieSitesOfColumns([c \in 1..2 |-> Column(weather_data, c)])

DayCalls ==
    <<"convert_date", "convert_f_to_c", "convert_f_to_c",
      "format_temperature", "format_temperature">>

DayText(formatted_date, formatted) ==
    "---- " \o formatted_date \o " ----\n"
    \o "  Minimum Temperature: " \o formatted[1] \o "\n"
    \o "  Maximum Temperature: " \o formatted[2] \o "\n"

DayBlockOf(formatted_date, celsius) ==
    IF formatted_date.exc # "none" THEN Done(Raised(formatted_date.exc), SubSeq(DayCalls, 1, 1))
    ELSE IF celsius[1].exc # "none" THEN Done(Raised(celsius[1].exc), SubSeq(DayCalls, 1, 2))
    ELSE IF celsius[2].exc # "none" THEN Done(Raised(celsius[2].exc), SubSeq(DayCalls, 1, 3))
    ELSE Done(ReturnedText(DayText(formatted_date.s,
                    [c \in 1..2 |-> format_temperature(ValueOf(celsius[c])).s])),
              DayCalls)

\* One pass of the loop of generate_daily_summary: the text it appends to
\* summary_lines, or the exception that ends the function.
DayBlock(row, ups) ==
    IF Len(row) < 3 THEN Done(Raised("IndexError"), <<>>)
    ELSE DayBlockOf(convert_date(row[1]),
                    [c \in 1..2 |-> convert_f_to_c(row[c + 1], ups[c])])

RECURSIVE JoinFrom(_, _, _)
\* sep.join(texts), from element k on.
JoinFrom(texts, k, sep) ==
    IF k > Len(texts) THEN ""
    ELSE IF k = Len(texts) THEN texts[k]
    ELSE texts[k] \o sep \o JoinFrom(texts, k + 1, sep)

RECURSIVE CallsUpTo(_, _)
\* The calls of the first k passes of the loop.
CallsUpTo(blocks, k) ==
    IF k = 0 THEN <<>> ELSE CallsUpTo(blocks, k - 1) \o blocks[k].calls

\* The loop ends at the first pass that raises; otherwise the blocks are
\* joined and a newline is appended.
DailyOf(blocks, sep, tail) ==
    LET bad == {k \in 1..Len(blocks) : blocks[k].out.exc # "none"}
        first == CHOOSE k \in bad : \A j \in bad : k <= j
    IN  IF bad # {} THEN Done(blocks[first].out, CallsUpTo(blocks, first))
        ELSE Done(ReturnedText(JoinFrom([k \in 1..Len(blocks) |-> blocks[k].out.s], 1, sep)
                                   \o tail),
                  CallsUpTo(blocks, Len(blocks)))

DayBlocks(weather_data, up) ==
    [k \in 1..Len(weather_data) |->
        DayBlock(weather_data[k], [c \in 1..2 |-> UpAt(up, <<k, c>>)])]

generate_daily_summary_no_newline(weather_data, up) ==
    DailyOf(DayBlocks(weather_data, up), "\n", "")

generate_daily_summary(weather_data, up) ==
    DailyOf(DayBlocks(weather_data, up), "\n", "\n")

\* The call sites <<row, column>> of generate_daily_summary whose
\* convert_f_to_c rounds a tie.
DailyTieSites(weather_data) ==
    {site \in (1..Len(weather_data)) \X {1, 2} :
        /\ Len(weather_data[site[1]]) >= 3
        /\ IsTie(weather_data[site[1]][site[2] + 1])}

-----
(* Bounds and inputs *)

MaxLines == 3
MaxLen == 3
MaxTemp == 212

\* The physical lines a file is made of: a blank line, a header, rows of
\* integers with ties in both columns, a row whose minimum is not a
\* number, a row with a padded integer, a maximum that is not a number and
\* an extra column, and a row that is too short.
Lines ==
    {"", "date,min,max",
     "2021-07-02,49,77", "2021-07-03,57,88", "2021-07-04,49,77",
     "2021-07-05,abc,70", "2021-07-06, 52,n/a,9", "2021-07-07"}

LineSeqs == UNION {[1..len -> Lines] : len \in 0..MaxLines}

\* open() fails (open is the exception), or it succeeds and reading
\* physical line failAt raises (0: no read fails).
Files ==
    {[path |-> "weather.csv", open |-> e, lines |-> <<>>, failAt |-> 0] :
        e \in {"FileNotFoundError", "PermissionError"}}
    \cup UNION {{[path |-> "weather.csv", open |-> "ok", lines |-> ls, failAt |-> at] :
                    at \in 0..Len(ls)} : ls \in LineSeqs}

NoFile == [path |-> "", open |-> "FileNotFoundError", lines |-> <<>>, failAt |-> 0]

\* The elements of the lists the aggregators are given.
Values ==
    {PyInt(-1), PyInt(0), PyInt(2), PyFloat(15, 10), PyFloat(-10, 10),
     PyStr("2"), PyStr("a")}

ValueSeqs == UNION {[1..len -> Values] : len \in 0..MaxLen}

Temperatures == {PyInt(f) : f \in (0 - MaxTemp)..MaxTemp}

NoOutcome == Raised("none")

-----------------------------------------------------------------------------
(* The program: a file is loaded, then summarised *)

Init ==
    /\ file \in Files
    /\ data = <<>>
    /\ console = <<>>
    /\ op = "start"
    /\ arg = <<>>
    /\ ret = NoOutcome
    /\ calls = <<>>

LoadDataFromCsv ==
    /\ op = "start"
    /\ LET r == load_data_from_csv(file) IN
        /\ data' = (IF r.exc = "none" THEN r.data ELSE <<>>)
        /\ console' = console \o r.printed
        /\ ret' = Raised(r.exc)
    /\ op' = "load_data_from_csv"
    /\ arg' = <<>>
    /\ calls' = <<>>
    /\ UNCHANGED file

GenerateSummary ==
    /\ op # "start"
    /\ ret.exc = "none" \/ op # "load_data_from_csv"
    /\ \E up \in [SummaryTieSites(data) -> BOOLEAN] :
        LET r == generate_summary(data, up) IN
            /\ ret' = r.out
            /\ calls' = r.calls
    /\ op' = "generate_summary"
    /\ arg' = data
    /\ UNCHANGED <<file, data, console>>

GenerateDailySummary ==
    /\ op # "start"
    /\ ret.exc = "none" \/ op # "load_data_from_csv"
    /\ \E up \in [DailyTieSites(data) -> BOOLEAN] :
        LET r == generate_daily_summary(data, up) IN
            /\ ret' = r.out
            /\ calls' = r.calls
    /\ op' = "generate_daily_summary"
    /\ arg' = data
    /\ UNCHANGED <<file, data, console>>

Next == LoadDataFromCsv \/ GenerateSummary \/ GenerateDailySummary

Spec == Init /\ [][Next]_vars

-----------------------------------------------------------------------------
(* The aggregators, applied to a list *)

InitAgg ==
    /\ arg \in ValueSeqs
    /\ file = NoFile
    /\ data = <<>>
    /\ console = <<>>
    /\ op = "start"
    /\ ret = NoOutcome
    /\ calls = <<>>

CallFindMin ==
    /\ op' = "find_min"
    /\ ret' = find_min(arg)
    /\ UNCHANGED <<file, data, console, arg, calls>>

CallFindMax ==
    /\ op' = "find_max"
    /\ ret' = find_max(arg)
    /\ UNCHANGED <<file, data, console, arg, calls>>

CallCalculateMean ==
    /\ op' = "calculate_mean"
    /\ ret' = calculate_mean(arg)
    /\ UNCHANGED <<file, data, console, arg, calls>>

NextAgg == CallFindMin \/ CallFindMax \/ CallCalculateMean

SpecAgg == InitAgg /\ [][NextAgg]_vars

-----------------------------------------------------------------------------
(* The temperature converters, applied to an integer *)

InitConv ==
    /\ arg \in Temperatures
    /\ file = NoFile
    /\ data = <<>>
    /\ console = <<>>
    /\ op = "start"
    /\ ret = NoOutcome
    /\ calls = <<>>

CallConvertFToC ==
    /\ op = "start"
    /\ \E up \in BOOLEAN : ret' = convert_f_to_c(arg, up)
    /\ op' = "convert_f_to_c"
    /\ UNCHANGED <<file, data, console, arg, calls>>

CallFormatTemperature ==
    /\ op = "convert_f_to_c"
    /\ ret.exc = "none"
    /\ ret' = format_temperature(ValueOf(ret))
    /\ op' = "format_temperature"
    /\ UNCHANGED <<file, data, console, arg, calls>>

NextConv == CallConvertFToC \/ CallFormatTemperature

SpecConv == InitConv /\ [][NextConv]_vars

-----------------------------------------------------------------------------
(* Properties of the aggregators (SpecAgg) *)

\* Every element is an int or a float.
AllNumbers(values) == \A k \in 1..Len(values) : values[k].t \in {"int", "float"}

FoundExtreme == op \in {"find_min", "find_max"} /\ Len(arg) > 0 /\ AllNumbers(arg)

\* C1: for a non-empty list of numbers, the index find_min returns is the
\* last position that holds the minimum and the index find_max returns is
\* the last position that holds the maximum: the element there is one of
\* the smallest (largest), and no later element equals it.
C1_LastIndexOfExtreme ==
    FoundExtreme =>
        /\ ret.exc = "none" /\ ret.t = "pair"
        /\ ret.i \in 0..(Len(arg) - 1)
        /\ \A j \in 1..Len(arg) :
            IF op = "find_min" THEN ~NumLess(arg[j], arg[ret.i + 1])
            ELSE ~NumLess(arg[ret.i + 1], arg[j])
        /\ \A j \in (ret.i + 2)..Len(arg) : ~NumEq(arg[j], arg[ret.i + 1])

\* find_min([-1, 2, -1.0]) and the like: the minimum occurs first and last,
\* and the last index is returned.
C1_Witness ==
    /\ op = "find_min" /\ Len(arg) = 3 /\ AllNumbers(arg)
    /\ NumEq(arg[1], arg[3]) /\ NumLess(arg[1], arg[2])
    /\ ret.t = "pair" /\ ret.i = 2

\* C2: for a non-empty list of numbers find_min returns (v, i) with v <= x
\* for every element x and seq[i] == v, find_max returns (v, i) with v >= x
\* for every x and seq[i] == v; for the empty list both return ().
C2_ExtremeValueAndEmptyMarker ==
    /\ FoundExtreme =>
        /\ ret.exc = "none" /\ ret.t = "pair"
        /\ ret.i \in 0..(Len(arg) - 1)
        /\ NumEq(arg[ret.i + 1], ret)
        /\ \A j \in 1..Len(arg) :
            IF op = "find_min" THEN ~NumLess(arg[j], ret) ELSE ~NumLess(ret, arg[j])
    /\ (op \in {"find_min", "find_max"} /\ Len(arg) = 0) =>
        (ret.exc = "none" /\ ret.t = "empty")

\* find_max of three numbers, the first of them the only largest.
C2_Witness ==
    /\ op = "find_max" /\ Len(arg) = 3 /\ AllNumbers(arg)
    /\ NumLess(arg[2], arg[1]) /\ NumLess(arg[3], arg[1])
    /\ ret.t = "pair" /\ ret.i = 0 /\ NumEq(ret, arg[1])

Converts(v) == ToFloat(v).exc = "none"

RECURSIVE DenominatorProduct(_, _)
DenominatorProduct(values, k) ==
    IF k > Len(values) THEN 1
    ELSE ToFloat(values[k]).d * DenominatorProduct(values, k + 1)

RECURSIVE ScaledTotal(_, _, _)
\* The sum of the elements from k on, times scale (a multiple of every
\* denominator).
ScaledTotal(values, k, scale) ==
    IF k > Len(values) THEN 0
    ELSE ToFloat(values[k]).n * (scale \div ToFloat(values[k]).d)
            + ScaledTotal(values, k + 1, scale)

\* C3: calculate_mean never raises on a list of numbers and strings: it
\* returns 0.0 for the empty list, the string "Cannot divide by zero" when
\* some element does not convert to a float, wherever it stands, and
\* otherwise the sum of the elements divided by their number.
C3_MeanIsTotal ==
    op = "calculate_mean" =>
        /\ ret.exc = "none"
        /\ Len(arg) = 0 => (ret.t = "float" /\ ret.n = 0)
        /\ (\E k \in 1..Len(arg) : ~Converts(arg[k])) =>
            (ret.t = "str" /\ ret.s = "Cannot divide by zero")
        /\ (Len(arg) > 0 /\ \A k \in 1..Len(arg) : Converts(arg[k])) =>
            /\ ret.t = "float"
            /\ ret.n * DenominatorProduct(arg, 1) * Len(arg)
                = ScaledTotal(arg, 1, DenominatorProduct(arg, 1)) * ret.d

\* Two numbers and then a text that is no number: the sentinel is returned.
C3_Witness ==
    /\ op = "calculate_mean" /\ Len(arg) = 3
    /\ Converts(arg[1]) /\ Converts(arg[2]) /\ ~Converts(arg[3])
    /\ ret.exc = "none" /\ ret.s = "Cannot divide by zero"

-----------------------------------------------------------------------------
(* Properties of the converter (SpecConv) *)

Abs(k) == IF k < 0 THEN -k ELSE k

\* C8: for an integer f, convert_f_to_c returns the tenth nearest to
\* (f - 32) * 5/9, which is strictly nearer than any other tenth: the exact
\* value is never halfway between two tenths, so the rounding mode does not
\* matter; 32 gives 0.0, 212 gives 100.0 and 145 gives 62.8.
C8_NearestTenth ==
    (op = "convert_f_to_c" /\ arg.t = "int") =>
        /\ ret.exc = "none" /\ ret.t = "float" /\ ret.d = 10
        /\ 2 * Abs(9 * ret.n - 50 * (arg.n - 32)) < 9
        /\ ~IsTie(arg)
        /\ arg.n = 32 => (ret.n = 0 /\ ~ret.z)
        /\ arg.n = 212 => ret.n = 1000
        /\ arg.n = 145 => ret.n = 628

\* convert_f_to_c(145) == 62.8: the exact value 62.77... is rounded up.
C8_Witness ==
    op = "convert_f_to_c" /\ arg = PyInt(145) /\ ret.exc = "none" /\ ret.n = 628

-----------------------------------------------------------------------------
(* Properties of the loader (Spec) *)

Loaded == op = "load_data_from_csv"

\* The file was opened and read to its end.
ReadWhole == file.open = "ok" /\ file.failAt = 0

\* The rows the reader yielded before the loop ended.
RowsRead ==
    IF file.open # "ok" THEN <<>>
    ELSE [k \in 1..(IF file.failAt = 0 THEN Len(file.lines) ELSE file.failAt - 1) |->
            CsvRow(file.lines[k])]

NonEmpty(rows) == SelectSeq(rows, LAMBDA row : Len(row) > 0)

\* The rows after the first physical row that have a field.
AfterFirstPhysicalRow(rows) ==
    IF Len(rows) = 0 THEN <<>> ELSE NonEmpty(SubSeq(rows, 2, Len(rows)))

\* The rows with a field, but for the first of them.
AfterFirstNonEmptyRow(rows) ==
    IF Len(NonEmpty(rows)) = 0 THEN <<>>
    ELSE SubSeq(NonEmpty(rows), 2, Len(NonEmpty(rows)))

\* The dataset holds one row for each of the rows given, in their order.
DataIsFrom(rows) ==
    /\ Len(data) = Len(rows)
    /\ \A k \in 1..Len(rows) :
        /\ Len(data[k]) = Len(rows[k])
        /\ data[k][1] = PyStr(rows[k][1])

\* C4 as stated: the first physical row is the header whatever it holds,
\* a blank line included, so the dataset holds every non-empty row from
\* the second physical row on.
C4_FirstPhysicalRowIsHeader ==
    (Loaded /\ ReadWhole) => DataIsFrom(AfterFirstPhysicalRow(RowsRead))

\* C4, amended: blank rows are passed over wherever they stand, and the
\* header that is skipped is the first row that is not blank, whatever it
\* holds; the dataset holds every non-empty row after that one.
C4_FirstNonEmptyRowIsHeader ==
    (Loaded /\ ReadWhole) => DataIsFrom(AfterFirstNonEmptyRow(RowsRead))

\* A blank first line, then two rows: the first of the two is taken for
\* the header and the dataset holds the other alone.
C4_Witness ==
    /\ Loaded /\ ReadWhole
    /\ Len(file.lines) = 3
    /\ file.lines[1] = "" /\ file.lines[2] # "" /\ file.lines[3] # ""
    /\ Len(data) = 1

\* C5: every row the loader returns has the fields of its row of the file,
\* as many and in the same order: field 0 as the text it is, each later
\* field as an integer when int() takes its text and as its text otherwise;
\* the rows keep the order of the file and none is left out for a field
\* that is no number.
C5_FieldsConverted ==
    Loaded =>
        /\ DataIsFrom(AfterFirstNonEmptyRow(RowsRead))
        /\ \A k \in 1..Len(data) : \A j \in 2..Len(data[k]) :
            LET text == AfterFirstNonEmptyRow(RowsRead)[k][j] IN
            IF IntOfText(text).exc = "none"
            THEN data[k][j] = PyInt(IntOfText(text).n)
            ELSE data[k][j] = PyStr(text)

\* A row with a padded integer, a text and an extra column was loaded.
C5_Witness ==
    /\ Loaded
    /\ \E k \in 1..Len(data) :
        /\ Len(data[k]) = 4
        /\ data[k][1] = PyStr("2021-07-06")
        /\ data[k][2] = PyInt(52)
        /\ data[k][3] = PyStr("n/a")
        /\ data[k][4] = PyInt(9)

\* C6: load_data_from_csv raises nothing: for a missing file it prints the
\* error and returns the empty list, and for any other error it prints the
\* error and returns the rows built before it, in order.
C6_ErrorsReported ==
    Loaded =>
        /\ ret.exc = "none"
        /\ file.open = "FileNotFoundError" =>
            /\ data = <<>>
            /\ console = <<"Error: The file '" \o file.path \o "' does not exist.">>
        /\ (file.open \notin {"ok", "FileNotFoundError"} \/ file.failAt # 0) =>
            /\ Len(console) = 1
            /\ SubSeq(console[1], 1, 19) = "An error occurred: "
            /\ DataIsFrom(AfterFirstNonEmptyRow(RowsRead))
        /\ ReadWhole => console = <<>>

\* Reading the third line failed after a header and a row were read: the
\* row is returned.
C6_Witness ==
    /\ Loaded
    /\ file.open = "ok" /\ file.failAt = 3
    /\ file.lines[1] # "" /\ file.lines[2] # "" /\ file.lines[3] # ""
    /\ Len(data) = 1 /\ Len(console) = 1 /\ ret.exc = "none"

-----------------------------------------------------------------------------
(* Properties of the summaries (Spec) *)

\* The text cut at its newlines: a text that ends with a newline has an
\* empty last line.
TextLines(text) ==
    LET breaks == {k \in 1..Len(text) : SubSeq(text, k, k) = "\n"}
        BreakAt(i) == CHOOSE k \in breaks : Cardinality({j \in breaks : j <= k}) = i
    IN  [i \in 1..(Cardinality(breaks) + 1) |->
            SubSeq(text,
                   IF i = 1 THEN 1 ELSE BreakAt(i - 1) + 1,
                   IF i = Cardinality(breaks) + 1 THEN Len(text) ELSE BreakAt(i) - 1)]

\* The number of newlines the text ends with.
TrailingNewlines(text) ==
    LET others == {k \in 1..Len(text) : SubSeq(text, k, k) # "\n"} IN
    IF others = {} THEN Len(text)
    ELSE Len(text) - (CHOOSE k \in others : \A j \in others : k >= j)

DailyReturned == op = "generate_daily_summary" /\ ret.exc = "none"

\* The temperature as convert_f_to_c and format_temperature render it.
Rendered(temp) == format_temperature(ValueOf(convert_f_to_c(temp, FALSE))).s

\* The lines of the summary hold one block of three lines for each row,
\* in the order of the rows, and an empty line after each block.
BlockPerRow(lines) ==
    \A k \in 1..Len(arg) :
        /\ lines[4 * k - 3] = "---- " \o convert_date(arg[k][1]).s \o " ----"
        /\ lines[4 * k - 2] = "  Minimum Temperature: " \o Rendered(arg[k][2])
        /\ lines[4 * k - 1] = "  Maximum Temperature: " \o Rendered(arg[k][3])
        /\ lines[4 * k] = ""

\* C7 as stated: whatever the dataset, the text generate_daily_summary
\* returns ends with a single newline.
C7_SingleTrailingNewline ==
    DailyReturned => TrailingNewlines(ret.s) = 1

\* C7, amended: generate_daily_summary returns one block of three lines for
\* each row, in the order of the rows, with an empty line between two
\* blocks; for the empty dataset the text is "\n", and for any other it
\* ends with two newlines, the one that ends the last block and the one
\* appended to the whole.
C7_BlocksAndTrailingNewlines ==
    DailyReturned =>
        /\ Len(arg) = 0 => ret.s = "\n"
        /\ Len(arg) > 0 =>
            /\ Len(TextLines(ret.s)) = 4 * Len(arg) + 1
            /\ BlockPerRow(TextLines(ret.s))
            /\ TrailingNewlines(ret.s) = 2

\* The daily summary of two rows.
C7_Witness ==
    DailyReturned /\ Len(arg) = 2 /\ Len(TextLines(ret.s)) = 9

\* The row has a date, a minimum and a maximum that the summaries take.
WellFormed(row) ==
    /\ Len(row) >= 3
    /\ convert_date(row[1]).exc = "none"
    /\ row[2].t = "int" /\ row[3].t = "int"

AllWellFormed(rows) == \A k \in 1..Len(rows) : WellFormed(rows[k])

\* The last row whose column c (counted from 0) is the smallest, or the
\* largest, of the column.
LastLowest(rows, c) ==
    CHOOSE k \in 1..Len(rows) :
        /\ \A j \in 1..Len(rows) : rows[k][c + 1].n <= rows[j][c + 1].n
        /\ \A j \in (k + 1)..Len(rows) : rows[j][c + 1].n # rows[k][c + 1].n
LastHighest(rows, c) ==
    CHOOSE k \in 1..Len(rows) :
        /\ \A j \in 1..Len(rows) : rows[k][c + 1].n >= rows[j][c + 1].n
        /\ \A j \in (k + 1)..Len(rows) : rows[j][c + 1].n # rows[k][c + 1].n

\* The first three lines of the overview say what the rows hold.
OverviewOf(lines, rows) ==
    /\ Len(lines) = 6
    /\ lines[1] = ToString(Len(rows)) \o " Day Overview"
    /\ lines[2] = "  The lowest temperature will be "
                    \o Rendered(rows[LastLowest(rows, 1)][2])
                    \o ", and will occur on "
                    \o convert_date(rows[LastLowest(rows, 1)][1]).s \o "."
    /\ lines[3] = "  The highest temperature will be "
                    \o Rendered(rows[LastHighest(rows, 2)][3])
                    \o ", and will occur on "
                    \o convert_date(rows[LastHighest(rows, 2)][1]).s \o "."

\* C9: for a non-empty dataset of well-formed rows generate_summary gives
\* the number of rows in its header, as the lowest temperature the minimum
\* of column 1 with the date of the last row that holds it, and as the
\* highest the maximum of column 2 with the date of the last row that holds
\* it; for the empty dataset it returns "" and calls no aggregator, so that
\* it never unpacks the empty tuple.
C9_OverviewOfExtremes ==
    op = "generate_summary" =>
        /\ Len(arg) = 0 => (ret.exc = "none" /\ ret.s = "" /\ calls = <<>>)
        /\ (Len(arg) > 0 /\ AllWellFormed(arg)) =>
            /\ ret.exc = "none"
            /\ OverviewOf(TextLines(ret.s), arg)
        /\ (\E k \in 1..Len(calls) : calls[k] \in {"find_min", "find_max"}) =>
            Len(arg) > 0

\* Two well-formed rows with the same minimum and the same maximum and
\* different dates: the overview names the date of the second.
C9_Witness ==
    /\ op = "generate_summary" /\ ret.exc = "none"
    /\ Len(arg) = 2 /\ AllWellFormed(arg)
    /\ arg[1][2] = arg[2][2] /\ arg[1][3] = arg[2][3] /\ arg[1][1] # arg[2][1]

\* The row has a minimum and a maximum, and one of them is a text that
\* float() does not take.
Malformed(row) ==
    /\ Len(row) >= 3
    /\ \E c \in 2..3 : row[c].t = "str" /\ ToFloat(row[c]).exc # "none"

\* Every row has a minimum and a maximum.
AllComplete(rows) == \A k \in 1..Len(rows) : Len(rows[k]) >= 3

\* C10: a minimum or maximum that is no number is taken at load time and
\* not at summary time: the loader returns, with the field kept as the
\* text it is, and generate_summary and generate_daily_summary on that
\* dataset then raise a conversion error rather than return a text.
C10_MalformedFieldRaisesInSummaries ==
    /\ (Loaded /\ ReadWhole) =>
        /\ ret.exc = "none"
        /\ \A k \in 1..Len(data) : \A j \in 2..Len(data[k]) :
            LET text == AfterFirstNonEmptyRow(RowsRead)[k][j] IN
            FloatOfText(text).exc # "none" => data[k][j] = PyStr(text)
    /\ (/\ op \in {"generate_summary", "generate_daily_summary"}
        /\ AllComplete(arg)
        /\ \E k \in 1..Len(arg) : Malformed(arg[k])) =>
            ret.exc = "ValueError"

\* A row whose minimum is "abc" was loaded, the dates are ISO dates, and
\* the daily summary raised ValueError.
C10_Witness ==
    /\ op = "generate_daily_summary" /\ ret.exc = "ValueError"
    /\ \A k \in 1..Len(arg) : convert_date(arg[k][1]).exc = "none"
    /\ \E k \in 1..Len(arg) : Len(arg[k]) >= 3 /\ arg[k][2] = PyStr("abc")

====
